---- MODULE Spec2Model ----
(***************************************************************************)
(* A model of the cache simulator csim.c: the geometry read from the       *)
(* command line, the array of sets, each a singly linked chain of heap     *)
(* allocated lines kept in LRU order (first_line = least recently used,    *)
(* last_line = most recently used), the statistics record, and the read    *)
(* loop of main, one trace record per step.                                *)
(***************************************************************************)
EXTENDS Integers, Sequences, FiniteSets, TLC

\* ------------------------------------------------------------------ bounds
\* Largest associativity tried.
MaxE == 3
\* Number of trace records read before the trace ends.
MaxTrace == 4
\* Width of the model's `long` (the program's is 64 bits wide).
WordBits == 5

\* ------------------------------------------------------- program constants
COLD_MISS_TYPE == -1
CAPACITY_MISS_TYPE == -2
NULL == 0

VARIABLES
    s, E, b,        \* the geometry globals (csim.c:80-82)
    pc,             \* where main is: "init", "loop", "done", "aborted"
    sets,           \* set_t sets[total_sets]
    heap,           \* the line_t cells: calloc'ed, linked, freed
    stats,          \* csim_stats_t
    buffer,         \* the trace record fgets read last
    is_load, tag, set_num, type,   \* the locals of the last loop iteration
    nread,          \* history: number of records read so far
    branches,       \* history: how often each branch of the loop body ran
    lastRef,        \* history: per heap cell, the record number of its last reference
    evicted,        \* history: the lines the last iteration freed
    scen,           \* history: how far the trace follows Scenario2, or -1
    ended,          \* history: how the reading ended: "no", "nofile", "eof", "error"
    summary,        \* whether printSummary has printed the statistics
    prevDirty,      \* history: the dirty bit the referenced line had before the access
    written,        \* history: per heap cell, whether a store accessed it since its insertion
    seen            \* history: the (set_num, tag) pairs accessed so far

vars == <<s, E, b, pc, sets, heap, stats, buffer, is_load, tag, set_num, type,
          nread, branches, lastRef, evicted, scen, ended, summary, prevDirty,
          written, seen>>

\* ------------------------------------------------------------- arithmetic
\* C's integer division and remainder (truncating toward zero).
CDiv(a, d) == IF a >= 0 THEN a \div d ELSE -((-a) \div d)
CMod(a, d) == a - d * CDiv(a, d)

RECURSIVE pow2(_)
pow2(index) ==
    IF index = 0 THEN 1
    ELSE LET half_res == pow2(CDiv(index, 2))
         IN  IF CMod(index, 2) = 0 THEN half_res * half_res
             ELSE 2 * half_res * half_res

total_sets == pow2(s)
total_bytes == pow2(b)
set_mask == total_sets - 1

\* A `long` is a WordBits-bit two's complement integer.
WordMod == 2 ^ WordBits
ToSigned(u) == IF u % WordMod >= WordMod \div 2 THEN (u % WordMod) - WordMod
               ELSE u % WordMod

RECURSIVE AndBits(_, _, _)
AndBits(x, y, n) ==
    IF n = 0 THEN 0
    ELSE (x % 2) * (y % 2) + 2 * AndBits(x \div 2, y \div 2, n - 1)

\* x & y on longs.
BitAnd(x, y) == ToSigned(AndBits(x % WordMod, y % WordMod, WordBits))

\* The addresses a trace record may name (hexadecimal digits read by %lx).
TraceAddrs == {0, 1, 2, 8}

\* The values an uninitialised long, or the result of an undefined shift,
\* is drawn from (any long is possible; two of them are tried).
Indeterminate == {0, 8}

\* x >> k on a long: undefined for a count out of range; for a negative x
\* implementation-defined, either arithmetic (gcc, clang: the sign bit is
\* copied in) or logical (zeros are shifted in).
Shr(x, k) ==
    IF k >= 0 /\ k < WordBits
    THEN IF x >= 0 THEN {x \div (2 ^ k)}
         ELSE {x \div (2 ^ k), ToSigned((x % WordMod) \div (2 ^ k))}
    ELSE Indeterminate

\* ------------------------------------------------------------ trace records
\* A line of the trace: its first character, its address field, and how much
\* of "%c %lx %*c %d" sscanf could convert: everything ("full"), all but the
\* size ("nosize"), or only the character ("noaddr").
Records ==
    [c : {"L", "S"}, addr : TraceAddrs, form : {"full"}]
    \cup { [c |-> "I", addr |-> 0, form |-> "full"],
           [c |-> "I", addr |-> 8, form |-> "full"],
           [c |-> "L", addr |-> 8, form |-> "nosize"],
           [c |-> "L", addr |-> 0, form |-> "noaddr"] }

NoRecord == [c |-> "-", addr |-> 0, form |-> "none"]

Decodable(rec) == rec.form = "full"

\* parsing_line: the (is_load, tag, set_num) triples it can produce.
parsing_line(buf) ==
    LET addr0 == IF buf.form = "noaddr" THEN Indeterminate
                 ELSE {ToSigned(buf.addr)}
        load == IF buf.c = "S" THEN 0 ELSE 1
    IN  UNION { UNION { { [is_load |-> load,
                           set_num |-> BitAnd(a1, set_mask),
                           tag |-> t] : t \in Shr(a1, s) }
                        : a1 \in Shr(a0, b) }
                : a0 \in addr0 }

\* ------------------------------------------------------------------- heap
\* Each record read allocates at most one line.
HeapCells == 1..MaxTrace

FreeCell == [alloc |-> FALSE, dirty_bit |-> 0, valid_bit |-> 0, tag |-> 0,
             next |-> NULL]

\* calloc(1, sizeof(line_t)): a zeroed cell, the lowest free one.
xcalloc(hp) == CHOOSE c \in HeapCells :
                  /\ ~hp[c].alloc
                  /\ \A d \in HeapCells : d < c => hp[d].alloc

init_line(hp, line, t) ==
    [hp EXCEPT ![line] = [alloc |-> TRUE, dirty_bit |-> 0, valid_bit |-> 1,
                          tag |-> t, next |-> NULL]]

free(hp, line) == [hp EXCEPT ![line] = FreeCell]

EmptySet == [line_count |-> 0, first_line |-> NULL, last_line |-> NULL]

\* ------------------------------------------------------------ classification
\* The scan stops one line short of line_count.
RECURSIVE scan_short(_, _, _, _, _)
scan_short(hp, line, i, line_count, t) ==
    IF i >= line_count - 1 THEN -1
    ELSE IF hp[line].tag = t THEN i
    ELSE scan_short(hp, hp[line].next, i + 1, line_count, t)

\* csim.c:287-294: the position of the line with tag t, or -1.
RECURSIVE scan(_, _, _, _, _)
scan(hp, line, i, line_count, t) ==
    IF i >= line_count THEN -1
    ELSE IF hp[line].tag = t THEN i
    ELSE scan(hp, hp[line].next, i + 1, line_count, t)

\* A full set is noticed only once it holds more than E lines.
miss_type_late(set, sn, t) ==
    IF set.line_count = 0 THEN COLD_MISS_TYPE
    ELSE LET i == scan(heap, set.first_line, 0, set.line_count, t)
         IN  IF i >= 0 THEN i
             ELSE IF set.line_count > E THEN CAPACITY_MISS_TYPE
             ELSE COLD_MISS_TYPE

\* csim.c:280-302.
miss_type(set, sn, t) ==
    IF set.line_count = 0 THEN COLD_MISS_TYPE
    ELSE LET i == scan(heap, set.first_line, 0, set.line_count, t)
         IN  IF i >= 0 THEN i
             ELSE IF set.line_count = E THEN CAPACITY_MISS_TYPE
             ELSE COLD_MISS_TYPE

RECURSIVE get_line_from(_, _, _)
get_line_from(hp, line, pos) ==
    IF pos <= 0 THEN line ELSE get_line_from(hp, hp[line].next, pos - 1)

get_line(hp, set, pos) == get_line_from(hp, set.first_line, pos)

\* ------------------------------------------------------ the loop's branches
\* The branches work on st = [heap, sets, stats] and, as history, record the
\* branches that ran (ran), the line the access referenced (touched) and the
\* lines it freed (freed).

\* A push at the front: the line becomes the least recently used.
append_line_front(hp, this_set, new_line) ==
    IF this_set.line_count = 0
    THEN [set |-> [line_count |-> 1, first_line |-> new_line,
                   last_line |-> new_line],
          heap |-> hp]
    ELSE [set |-> [this_set EXCEPT !.line_count = this_set.line_count + 1,
                                   !.first_line = new_line],
          heap |-> [hp EXCEPT ![new_line].next = this_set.first_line]]

\* The line is linked but not counted.
append_line_uncounted(hp, this_set, new_line) ==
    IF this_set.line_count = 0
    THEN [set |-> [line_count |-> 1, first_line |-> new_line,
                   last_line |-> new_line],
          heap |-> hp]
    ELSE [set |-> [this_set EXCEPT !.last_line = new_line],
          heap |-> [hp EXCEPT ![this_set.last_line].next = new_line]]

\* csim.c:119-127: the new line is linked behind last_line.
append_line(hp, this_set, new_line) ==
    IF this_set.line_count = 0
    THEN [set |-> [line_count |-> 1, first_line |-> new_line,
                   last_line |-> new_line],
          heap |-> hp]
    ELSE [set |-> [this_set EXCEPT !.line_count = this_set.line_count + 1,
                                   !.last_line = new_line],
          heap |-> [hp EXCEPT ![this_set.last_line].next = new_line]]

\* csim.c:112-136, type == COLD_MISS_TYPE.
cold_miss_branch(st, sn, t, load) ==
    LET new_line == xcalloc(st.heap)
        hp1 == init_line(st.heap, new_line, t)
        linked == append_line(hp1, st.sets[sn], new_line)
        hp2 == IF load = 0 THEN [linked.heap EXCEPT ![new_line].dirty_bit = 1]
               ELSE linked.heap
        stats1 == IF load = 0
                  THEN [st.stats EXCEPT !.dirty_bytes = @ + total_bytes]
                  ELSE st.stats
    IN  [st EXCEPT !.heap = hp2,
                   !.sets = [st.sets EXCEPT ![sn] = linked.set],
                   !.stats = [stats1 EXCEPT !.misses = @ + 1],
                   !.ran = Append(@, "cold"),
                   !.touched = new_line]

\* The new line takes the place of the first line, at the front.
replace_first_in_place(hp, this_set, new_line) ==
    IF this_set.line_count = 1
    THEN [set |-> [this_set EXCEPT !.first_line = new_line,
                                   !.last_line = new_line],
          heap |-> hp]
    ELSE [set |-> [this_set EXCEPT !.first_line = new_line],
          heap |-> [hp EXCEPT ![new_line].next = hp[this_set.first_line].next]]

\* csim.c:147-156: the first line is unlinked, the new one linked last.
replace_first(hp, this_set, new_line) ==
    IF this_set.line_count = 1
    THEN [set |-> [this_set EXCEPT !.first_line = new_line,
                                   !.last_line = new_line],
          heap |-> hp]
    ELSE [set |-> [this_set EXCEPT !.first_line = hp[this_set.first_line].next,
                                   !.last_line = new_line],
          heap |-> [hp EXCEPT ![this_set.last_line].next = new_line]]

\* The dirty bytes of the evicted line stay counted.
eviction_stats_keep(stt, victim_dirty) ==
    LET stats1 == [stt EXCEPT !.misses = @ + 1, !.evictions = @ + 1]
    IN  IF victim_dirty = 1
        THEN [stats1 EXCEPT !.dirty_evictions = @ + total_bytes]
        ELSE stats1

\* Every eviction counted as a dirty one.
eviction_stats_always(stt, victim_dirty) ==
    LET stats1 == [stt EXCEPT !.misses = @ + 1, !.evictions = @ + 1]
    IN  IF victim_dirty = 1
        THEN [stats1 EXCEPT !.dirty_evictions = @ + total_bytes,
                            !.dirty_bytes = @ - total_bytes]
        ELSE [stats1 EXCEPT !.dirty_evictions = @ + total_bytes]

\* A miss with eviction counted as an eviction only.
eviction_stats_no_miss(stt, victim_dirty) ==
    LET stats1 == [stt EXCEPT !.evictions = @ + 1]
    IN  IF victim_dirty = 1
        THEN [stats1 EXCEPT !.dirty_evictions = @ + total_bytes,
                            !.dirty_bytes = @ - total_bytes]
        ELSE stats1

\* csim.c:158-165: the counters of a miss with eviction.
eviction_stats(stt, victim_dirty) ==
    LET stats1 == [stt EXCEPT !.misses = @ + 1, !.evictions = @ + 1]
    IN  IF victim_dirty = 1
        THEN [stats1 EXCEPT !.dirty_evictions = @ + total_bytes,
                            !.dirty_bytes = @ - total_bytes]
        ELSE stats1

\* csim.c:139-174, type == CAPACITY_MISS_TYPE.
capacity_miss_branch(st, sn, t, load) ==
    LET this_set == st.sets[sn]
        new_line == xcalloc(st.heap)
        hp1 == init_line(st.heap, new_line, t)
        first_line == this_set.first_line
        linked == replace_first(hp1, this_set, new_line)
        stats1 == eviction_stats(st.stats, linked.heap[first_line].dirty_bit)
        stats2 == IF load = 0
                  THEN [stats1 EXCEPT !.dirty_bytes = @ + total_bytes]
                  ELSE stats1
        hp2 == IF load = 0 THEN [linked.heap EXCEPT ![new_line].dirty_bit = 1]
               ELSE linked.heap
    IN  [st EXCEPT !.heap = free(hp2, first_line),
                   !.sets = [st.sets EXCEPT ![sn] = linked.set],
                   !.stats = stats2,
                   !.ran = Append(@, "capacity"),
                   !.touched = new_line,
                   !.freed = Append(@, [cell |-> first_line,
                                        tag |-> hp2[first_line].tag,
                                        dirty_bit |-> hp2[first_line].dirty_bit,
                                        set_num |-> sn])]

\* Only the first line is ever moved; a hit elsewhere leaves the chain alone.
move_to_back_first_only(hp, this_set, pos) ==
    IF pos = this_set.line_count - 1
    THEN [set |-> this_set, heap |-> hp, cur_line |-> this_set.last_line]
    ELSE IF pos = 0
    THEN LET cur_line == this_set.first_line
         IN  [set |-> [this_set EXCEPT !.first_line = hp[cur_line].next,
                                       !.last_line = cur_line],
              heap |-> [[hp EXCEPT ![this_set.last_line].next = cur_line]
                            EXCEPT ![cur_line].next = NULL],
              cur_line |-> cur_line]
    ELSE [set |-> this_set, heap |-> hp,
          cur_line |-> hp[get_line(hp, this_set, pos - 1)].next]

\* The first line is moved to the end with its next pointer left as it was.
move_to_back_no_null(hp, this_set, pos) ==
    IF pos = this_set.line_count - 1
    THEN [set |-> this_set, heap |-> hp, cur_line |-> this_set.last_line]
    ELSE IF pos = 0
    THEN LET cur_line == this_set.first_line
         IN  [set |-> [this_set EXCEPT !.first_line = hp[cur_line].next,
                                       !.last_line = cur_line],
              heap |-> [hp EXCEPT ![this_set.last_line].next = cur_line],
              cur_line |-> cur_line]
    ELSE LET prev_line == get_line(hp, this_set, pos - 1)
             cur_line == hp[prev_line].next
         IN  [set |-> [this_set EXCEPT !.last_line = cur_line],
              heap |-> [[[hp EXCEPT ![prev_line].next = hp[cur_line].next]
                             EXCEPT ![this_set.last_line].next = cur_line]
                             EXCEPT ![cur_line].next = NULL],
              cur_line |-> cur_line]

\* csim.c:181-202: the line at position pos becomes last_line; the three
\* cases are the last position, the first position and any other.
move_to_back(hp, this_set, pos) ==
    IF pos = this_set.line_count - 1
    THEN [set |-> this_set, heap |-> hp, cur_line |-> this_set.last_line]
    ELSE IF pos = 0
    THEN LET cur_line == this_set.first_line
         IN  [set |-> [this_set EXCEPT !.first_line = hp[cur_line].next,
                                       !.last_line = cur_line],
              heap |-> [[hp EXCEPT ![this_set.last_line].next = cur_line]
                            EXCEPT ![cur_line].next = NULL],
              cur_line |-> cur_line]
    ELSE LET prev_line == get_line(hp, this_set, pos - 1)
             cur_line == hp[prev_line].next
         IN  [set |-> [this_set EXCEPT !.last_line = cur_line],
              heap |-> [[[hp EXCEPT ![prev_line].next = hp[cur_line].next]
                             EXCEPT ![this_set.last_line].next = cur_line]
                             EXCEPT ![cur_line].next = NULL],
              cur_line |-> cur_line]

\* Every store that hits adds the line size to dirty_bytes.
hit_branch_recount(st, sn, pos, load) ==
    LET moved == move_to_back(st.heap, st.sets[sn], pos)
        cur_line == moved.cur_line
        store == load = 0
        hp1 == IF store THEN [moved.heap EXCEPT ![cur_line].dirty_bit = 1]
               ELSE moved.heap
        stats1 == [st.stats EXCEPT !.hits = @ + 1]
        stats2 == IF store THEN [stats1 EXCEPT !.dirty_bytes = @ + total_bytes]
                  ELSE stats1
    IN  [st EXCEPT !.heap = hp1,
                   !.sets = [st.sets EXCEPT ![sn] = moved.set],
                   !.stats = stats2,
                   !.ran = Append(@, "hit"),
                   !.touched = cur_line]

\* A store that hits a clean line counts its bytes and leaves its bit clear.
hit_branch_unmarked(st, sn, pos, load) ==
    LET moved == move_to_back(st.heap, st.sets[sn], pos)
        cur_line == moved.cur_line
        store == load = 0 /\ moved.heap[cur_line].dirty_bit = 0
        stats1 == [st.stats EXCEPT !.hits = @ + 1]
        stats2 == IF store THEN [stats1 EXCEPT !.dirty_bytes = @ + total_bytes]
                  ELSE stats1
    IN  [st EXCEPT !.heap = moved.heap,
                   !.sets = [st.sets EXCEPT ![sn] = moved.set],
                   !.stats = stats2,
                   !.ran = Append(@, "hit"),
                   !.touched = cur_line]

\* csim.c:177-211, type >= 0: the position of the line that was hit.
hit_branch(st, sn, pos, load) ==
    LET moved == move_to_back(st.heap, st.sets[sn], pos)
        cur_line == moved.cur_line
        store == load = 0 /\ moved.heap[cur_line].dirty_bit = 0
        hp1 == IF store THEN [moved.heap EXCEPT ![cur_line].dirty_bit = 1]
               ELSE moved.heap
        stats1 == [st.stats EXCEPT !.hits = @ + 1]
        stats2 == IF store THEN [stats1 EXCEPT !.dirty_bytes = @ + total_bytes]
                  ELSE stats1
    IN  [st EXCEPT !.heap = hp1,
                   !.sets = [st.sets EXCEPT ![sn] = moved.set],
                   !.stats = stats2,
                   !.ran = Append(@, "hit"),
                   !.touched = cur_line]

\* A hit at position 0 runs no branch.
loop_body_positive(st, sn, t, load, ty) ==
    LET st1 == IF ty = COLD_MISS_TYPE THEN cold_miss_branch(st, sn, t, load)
               ELSE st
        st2 == IF ty = CAPACITY_MISS_TYPE
               THEN capacity_miss_branch(st1, sn, t, load) ELSE st1
        st3 == IF ty > 0 THEN hit_branch(st2, sn, ty, load) ELSE st2
    IN  st3

\* Every branch works on the first set of the array.
loop_body_set0(st, sn, t, load, ty) ==
    LET st1 == IF ty = COLD_MISS_TYPE THEN cold_miss_branch(st, 0, t, load)
               ELSE st
        st2 == IF ty = CAPACITY_MISS_TYPE
               THEN capacity_miss_branch(st1, 0, t, load) ELSE st1
        st3 == IF ty >= 0 THEN hit_branch(st2, 0, ty, load) ELSE st2
    IN  st3

\* The body of the read loop for one classified record (csim.c:108-211): three
\* ifs in a row, each testing the same type.
loop_body(st, sn, t, load, ty) ==
    LET st1 == IF ty = COLD_MISS_TYPE THEN cold_miss_branch(st, sn, t, load)
               ELSE st
        st2 == IF ty = CAPACITY_MISS_TYPE
               THEN capacity_miss_branch(st1, sn, t, load) ELSE st1
        st3 == IF ty >= 0 THEN hit_branch(st2, sn, ty, load) ELSE st2
    IN  st3

\* ------------------------------------------------------------ the geometry
\* The command lines tried: the valid geometries, and one of each kind the
\* specification calls invalid.
Geometries ==
    [s : {0, 1}, b : {0, 1}, E : 1..MaxE]
    \cup { [s |-> 0, b |-> 0, E |-> 0], [s |-> 0, b |-> 0, E |-> -1],
           [s |-> -1, b |-> 0, E |-> 1], [s |-> 0, b |-> -1, E |-> 1] }

ValidGeometry == s >= 0 /\ b >= 0 /\ E >= 1

\* The second end-to-end scenario of the specification: L 0,1 ; L 8,1 ; L 0,1.
Scenario2 == << [c |-> "L", addr |-> 0, form |-> "full"],
                [c |-> "L", addr |-> 8, form |-> "full"],
                [c |-> "L", addr |-> 0, form |-> "full"] >>

\* ---------------------------------------------------------------- actions
Init ==
    /\ \E g \in Geometries : s = g.s /\ E = g.E /\ b = g.b
    /\ pc = "init"
    /\ sets = << >>
    /\ heap = [c \in HeapCells |-> FreeCell]
    /\ stats = [hits |-> 0, misses |-> 0, evictions |-> 0, dirty_bytes |-> 0,
                dirty_evictions |-> 0]
    /\ buffer = NoRecord
    /\ is_load = 0 /\ tag = 0 /\ set_num = 0 /\ type = 0
    /\ nread = 0
    /\ branches = [cold |-> 0, capacity |-> 0, hit |-> 0, dirty_evicted |-> 0]
    /\ lastRef = [c \in HeapCells |-> 0]
    /\ evicted = << >>
    /\ scen = 0
    /\ ended = "no"
    /\ summary = FALSE
    /\ prevDirty = 0
    /\ written = [c \in HeapCells |-> FALSE]
    /\ seen = {}

\* main, csim.c:91-96: the globals are set, the sets allocated (zeroed) and
\* the trace opened; file_open aborts when fopen fails.
Start ==
    /\ pc = "init"
    /\ sets' = [i \in 0..(total_sets - 1) |-> EmptySet]
    /\ \E opened \in BOOLEAN :
          /\ pc' = IF opened THEN "loop" ELSE "aborted"
          /\ ended' = IF opened THEN "no" ELSE "nofile"
    /\ UNCHANGED <<s, E, b, heap, stats, buffer, is_load, tag, set_num, type,
                   nread, branches, lastRef, evicted, scen, summary, prevDirty,
                   written, seen>>

Count(seq, x) == Cardinality({i \in 1..Len(seq) : seq[i] = x})

\* One iteration of the read loop, csim.c:98-212: fgets read `rec`.
Access(rec) ==
    /\ pc = "loop"
    /\ nread < MaxTrace
    /\ \E p \in parsing_line(rec) :
         LET ty == miss_type(sets[p.set_num], p.set_num, p.tag)
             st0 == [heap |-> heap, sets |-> sets, stats |-> stats,
                     ran |-> << >>, touched |-> NULL, freed |-> << >>]
             st == loop_body(st0, p.set_num, p.tag, p.is_load, ty)
         IN  /\ heap' = st.heap
             /\ sets' = st.sets
             /\ stats' = st.stats
             /\ is_load' = p.is_load
             /\ tag' = p.tag
             /\ set_num' = p.set_num
             /\ type' = ty
             /\ branches' =
                  [cold |-> branches.cold + Count(st.ran, "cold"),
                   capacity |-> branches.capacity + Count(st.ran, "capacity"),
                   hit |-> branches.hit + Count(st.ran, "hit"),
                   dirty_evicted |-> branches.dirty_evicted
                       + Cardinality({i \in 1..Len(st.freed) :
                                         st.freed[i].dirty_bit = 1})]
             /\ lastRef' =
                  [c \in HeapCells |->
                     IF c = st.touched THEN nread + 1
                     ELSE IF st.heap[c].alloc THEN lastRef[c] ELSE 0]
             /\ evicted' = st.freed
             /\ prevDirty' = IF ty >= 0 /\ st.touched # NULL
                             THEN heap[st.touched].dirty_bit ELSE 0
             /\ written' =
                  [c \in HeapCells |->
                     IF c = st.touched
                     THEN p.is_load = 0 \/ (ty >= 0 /\ written[c])
                     ELSE st.heap[c].alloc /\ written[c]]
             /\ seen' = seen \cup {<<p.set_num, p.tag>>}
    /\ buffer' = rec
    /\ nread' = nread + 1
    /\ scen' = IF scen = nread /\ nread < Len(Scenario2)
                  /\ Scenario2[nread + 1] = rec
               THEN scen + 1 ELSE -1
    /\ UNCHANGED <<s, E, b, pc, ended, summary>>

\* fgets returns NULL (csim.c:98, 213-215), at the end of the trace or on a
\* read error alike: the stream is closed, the summary printed (stats keeps
\* what was printed) and free_mem frees every line and the sets; the locals
\* of main are gone.
Finish ==
    /\ pc = "loop"
    /\ pc' = "done"
    /\ \E how \in {"eof", "error"} : ended' = how
    /\ summary' = TRUE
    /\ heap' = [c \in HeapCells |-> FreeCell]
    /\ sets' = << >>
    /\ buffer' = NoRecord
    /\ is_load' = 0 /\ tag' = 0 /\ set_num' = 0 /\ type' = 0
    /\ lastRef' = [c \in HeapCells |-> 0]
    /\ evicted' = << >>
    /\ prevDirty' = 0
    /\ written' = [c \in HeapCells |-> FALSE]
    /\ seen' = {}
    /\ UNCHANGED <<s, E, b, stats, nread, branches, scen>>

Next ==
    \/ Start
    \/ \E rec \in Records : Access(rec)
    \/ Finish

Spec == Init /\ [][Next]_vars

\* ------------------------------------------------- the address decomposition
\* parsing_line alone, on every address a long can hold: the geometry is a
\* valid one and the record a well formed load or store.
MaxBits == 2

DecodeRecords == [c : {"L", "S"}, addr : 0..(WordMod - 1), form : {"full"}]

InitDecode ==
    /\ s \in 0..MaxBits /\ b \in 0..MaxBits /\ E = 1
    /\ pc = "decode"
    /\ sets = << >>
    /\ heap = [c \in HeapCells |-> FreeCell]
    /\ stats = [hits |-> 0, misses |-> 0, evictions |-> 0, dirty_bytes |-> 0,
                dirty_evictions |-> 0]
    /\ buffer = NoRecord
    /\ is_load = 0 /\ tag = 0 /\ set_num = 0 /\ type = 0
    /\ nread = 0
    /\ branches = [cold |-> 0, capacity |-> 0, hit |-> 0, dirty_evicted |-> 0]
    /\ lastRef = [c \in HeapCells |-> 0]
    /\ evicted = << >>
    /\ scen = 0
    /\ ended = "no"
    /\ summary = FALSE
    /\ prevDirty = 0
    /\ written = [c \in HeapCells |-> FALSE]
    /\ seen = {}

\* csim.c:103: parsing_line(buffer, &is_load, &tag, &set_num).
Decode(rec) ==
    /\ pc = "decode"
    /\ pc' = "decoded"
    /\ buffer' = rec
    /\ \E p \in parsing_line(rec) :
          is_load' = p.is_load /\ tag' = p.tag /\ set_num' = p.set_num
    /\ UNCHANGED <<s, E, b, sets, heap, stats, type, nread, branches, lastRef,
                   evicted, scen, ended, summary, prevDirty, written, seen>>

NextDecode == \E rec \in DecodeRecords : Decode(rec)

SpecDecode == InitDecode /\ [][NextDecode]_vars

\* ------------------------------------------------------- views of the state
\* The cells of a chain, following next from `line` until NULL (at most one
\* step per heap cell, so that a malformed chain still has a value).
RECURSIVE ChainFrom(_, _, _)
ChainFrom(hp, line, fuel) ==
    IF line = NULL \/ fuel = 0 THEN << >>
    ELSE <<line>> \o ChainFrom(hp, hp[line].next, fuel - 1)

\* The resident lines of a set, least recently used first.
LinesOf(hp, set) == ChainFrom(hp, set.first_line, MaxTrace + 1)

TagsOf(hp, set) ==
    LET ls == LinesOf(hp, set) IN [i \in 1..Len(ls) |-> hp[ls[i]].tag]

Range(seq) == {seq[i] : i \in 1..Len(seq)}

Resident(hp, ss) == UNION {Range(LinesOf(hp, ss[i])) : i \in DOMAIN ss}

MoveToBack(seq, p) ==
    SubSeq(seq, 1, p - 1) \o SubSeq(seq, p + 1, Len(seq)) \o <<seq[p]>>

\* The step is one iteration of the read loop.
AccessStep == pc = "loop" /\ pc' = "loop" /\ nread' = nread + 1

\* ------------------------------------------------------------------ claims

\* C1: with E >= 1, every set holds at most E resident lines at all times:
\* neither its line_count nor the length of its chain exceeds E.
CapacityInvariant ==
    (pc = "loop" /\ E >= 1) =>
        \A i \in DOMAIN sets :
            /\ sets[i].line_count <= E
            /\ Len(LinesOf(heap, sets[i])) <= E

\* C1 witness: a full set of the largest associativity took a miss.
CapacityWitness ==
    /\ pc = "loop" /\ E = MaxE /\ nread > 0
    /\ type = CAPACITY_MISS_TYPE
    /\ sets[set_num].line_count = E

\* C2: with E >= 1, no two resident lines of a set carry the same tag.
UniquenessInvariant ==
    (pc = "loop" /\ E >= 1) =>
        \A i \in DOMAIN sets :
            LET tags == TagsOf(heap, sets[i])
            IN  \A j, k \in 1..Len(tags) : j # k => tags[j] # tags[k]

\* C2 witness: a set of several lines was accessed again with the tag of its
\* most recently used line.
UniquenessWitness ==
    /\ pc = "loop" /\ E >= 2 /\ nread > 0
    /\ sets[set_num].line_count >= 2
    /\ type = sets[set_num].line_count - 1

\* C3: a hit at position p of its set leaves the chain of that set equal to
\* the chain before with the line at p removed and appended at the end; the
\* lines are the same cells, with the same tags.
HitMovesToBack ==
    [][ (AccessStep /\ type' >= 0) =>
            LET old == LinesOf(heap, sets[set_num'])
                new == LinesOf(heap', sets'[set_num'])
            IN  /\ type' < Len(old)
                /\ heap[old[type' + 1]].tag = tag'
                /\ new = MoveToBack(old, type' + 1)
                /\ sets'[set_num'].last_line = old[type' + 1]
                /\ \A c \in Range(old) : heap'[c].tag = heap[c].tag ]_vars

\* C3 witness: a hit in the middle of a set of three lines.
HitMiddleWitness ==
    /\ pc = "loop" /\ nread > 0
    /\ sets[set_num].line_count = 3
    /\ type = 1

\* C4: a miss in a set holding E >= 1 lines removes exactly the resident line
\* of that set whose last reference (insertion or hit) is the oldest.
TagResident(hp, set, t) == \E c \in Range(LinesOf(hp, set)) : hp[c].tag = t

EvictsTrueLRU ==
    [][ (/\ AccessStep
         /\ E >= 1
         /\ Len(LinesOf(heap, sets[set_num'])) = E
         /\ ~TagResident(heap, sets[set_num'], tag')) =>
            LET old == Range(LinesOf(heap, sets[set_num']))
                new == Range(LinesOf(heap', sets'[set_num']))
                gone == old \ new
            IN  /\ Cardinality(gone) = 1
                /\ \A v \in gone :
                      /\ \A c \in old : lastRef[v] <= lastRef[c]
                      /\ ~heap'[v].alloc
                      /\ Len(evicted') = 1
                      /\ evicted'[1].cell = v
                      /\ evicted'[1].tag = heap[v].tag ]_vars

\* C4 witness: in a two-way set the line inserted first was hit, and the miss
\* that followed removed the line inserted second.
EvictsTrueLRUWitness ==
    /\ pc = "loop" /\ E = 2 /\ nread > 0
    /\ branches.hit >= 1
    /\ type = CAPACITY_MISS_TYPE
    /\ Len(evicted) = 1 /\ evicted[1].cell = 2

\* C5: between accesses dirty_bytes is the line size times the number of
\* resident lines whose dirty bit is set, and so is never negative.
DirtyLines(hp, ss) == {c \in Resident(hp, ss) : hp[c].dirty_bit = 1}

DirtyBytesConservation ==
    pc = "loop" =>
        /\ stats.dirty_bytes = total_bytes * Cardinality(DirtyLines(heap, sets))
        /\ stats.dirty_bytes >= 0

\* C5 witness: a dirty line was evicted and a dirty line is resident.
DirtyBytesWitness ==
    /\ pc = "loop"
    /\ branches.dirty_evicted > 0
    /\ stats.dirty_bytes > 0

\* C6: dirty_evictions grows by the line size in exactly the steps that are a
\* capacity miss freeing a dirty line and is unchanged in every other step, so
\* it always is the line size times the number of dirty lines evicted so far.
DirtyEvictionStep ==
    /\ AccessStep
    /\ type' = CAPACITY_MISS_TYPE
    /\ \E c \in HeapCells :
          heap[c].alloc /\ heap[c].dirty_bit = 1 /\ ~heap'[c].alloc

DirtyEvictionsMonotone ==
    [][ /\ stats'.dirty_evictions =
             stats.dirty_evictions +
                 (IF DirtyEvictionStep THEN total_bytes ELSE 0)
        /\ stats'.dirty_evictions >= stats.dirty_evictions
        /\ stats'.dirty_evictions = total_bytes * branches'.dirty_evicted ]_vars

\* C6 witness: a dirty line and a clean line have both been evicted.
DirtyEvictionsWitness ==
    /\ pc = "loop"
    /\ branches.dirty_evicted > 0
    /\ branches.capacity > branches.dirty_evicted
    /\ stats.dirty_evictions > 0

\* C7: every record read runs exactly one of the three branches, so hits +
\* misses is the number of records read, misses the number of cold plus
\* capacity misses, and evictions the number of capacity misses.
ClassificationExhaustive ==
    pc \in {"loop", "done"} =>
        /\ branches.cold + branches.capacity + branches.hit = nread
        /\ stats.hits + stats.misses = nread
        /\ stats.hits = branches.hit
        /\ stats.misses = branches.cold + branches.capacity
        /\ stats.evictions = branches.capacity
        /\ (pc = "loop" /\ nread > 0) =>
               (type = COLD_MISS_TYPE \/ type = CAPACITY_MISS_TYPE \/ type >= 0)

\* C7 witness: a trace with a cold miss, a capacity miss and a hit at the
\* least recently used position.
ClassificationWitness ==
    /\ pc = "done"
    /\ branches.cold > 0 /\ branches.capacity > 0 /\ branches.hit > 0

\* C8, as claimed: with s = 1, E = 1, b = 1 the trace L 0,1 ; L 8,1 ; L 0,1
\* ends with misses = 2, evictions = 1, hits = 0.
Scenario2Done == s = 1 /\ E = 1 /\ b = 1 /\ scen = Len(Scenario2)

Scenario2AsClaimed ==
    Scenario2Done =>
        stats.misses = 2 /\ stats.evictions = 1 /\ stats.hits = 0

\* C8, amended: that trace ends with misses = 3, evictions = 2, hits = 0
\* (addresses 0 and 8 share set 0, so the second access already evicts).
Scenario2Counters ==
    Scenario2Done =>
        stats.misses = 3 /\ stats.evictions = 2 /\ stats.hits = 0

\* C8 witness: the run ended right after the three records of the scenario.
Scenario2Witness == Scenario2Done /\ pc = "done"

\* C9, as claimed: under a geometry with s < 0, b < 0 or E <= 0 no trace
\* record is ever read or applied and no set is ever mutated.
InvalidGeometryRejected ==
    ~ValidGeometry =>
        /\ nread = 0
        /\ \A i \in DOMAIN sets : sets[i] = EmptySet

\* C10, as claimed: a record that cannot be decoded into operation, address
\* and size changes no set, no line and no counter.
MalformedRecordRejected ==
    [][ (AccessStep /\ ~Decodable(buffer')) =>
            UNCHANGED <<sets, heap, stats>> ]_vars

\* C11, as claimed: when the trace cannot be opened, or a read of it fails
\* after records were applied, no statistics are printed.
SummaryOnlyAfterWholeTrace ==
    /\ ended = "nofile" => ~summary
    /\ (ended = "error" /\ nread > 0) => ~summary

\* C13, as claimed: a record whose operation character is I changes no set,
\* no line and no counter.
InstructionFetchIgnored ==
    [][ (AccessStep /\ buffer'.c = "I") =>
            UNCHANGED <<sets, heap, stats>> ]_vars

\* C14: after every record the accessed tag is resident in the set its index
\* selects, as that set's last line; on a miss the lines that stay resident
\* keep their order (all of them on a cold miss, all but the first on a
\* capacity miss).
AccessedLineIsLast ==
    [][ AccessStep =>
            LET old == LinesOf(heap, sets[set_num'])
                new == LinesOf(heap', sets'[set_num'])
            IN  /\ Len(new) > 0
                /\ new[Len(new)] = sets'[set_num'].last_line
                /\ heap'[new[Len(new)]].tag = tag'
                /\ heap'[new[Len(new)]].alloc
                /\ type' = COLD_MISS_TYPE =>
                       SubSeq(new, 1, Len(new) - 1) = old
                /\ type' = CAPACITY_MISS_TYPE =>
                       SubSeq(new, 1, Len(new) - 1) = Tail(old)
                /\ type' < 0 =>
                       \A c \in Range(SubSeq(new, 1, Len(new) - 1)) :
                           heap'[c].tag = heap[c].tag ]_vars

\* C14 witness: a capacity miss in a set of three lines.
AccessedLineIsLastWitness ==
    /\ pc = "loop" /\ nread > 0
    /\ type = CAPACITY_MISS_TYPE
    /\ sets[set_num].line_count = 3
    /\ heap[sets[set_num].last_line].tag = tag

\* C15: a hit adds one to hits and changes the order of its set; a store that
\* hits a clean line also sets that line's dirty bit and adds the line size
\* to dirty_bytes; nothing else changes: not misses, evictions or
\* dirty_evictions, not the resident lines or their tags, not any other
\* dirty bit, and dirty_bytes not at all on a load or on a store to a dirty
\* line.
HitFrame ==
    [][ (AccessStep /\ type' >= 0) =>
            LET old == LinesOf(heap, sets[set_num'])
                cur == old[type' + 1]
                marks == is_load' = 0 /\ heap[cur].dirty_bit = 0
            IN  /\ stats'.hits = stats.hits + 1
                /\ stats'.misses = stats.misses
                /\ stats'.evictions = stats.evictions
                /\ stats'.dirty_evictions = stats.dirty_evictions
                /\ stats'.dirty_bytes =
                       stats.dirty_bytes + (IF marks THEN total_bytes ELSE 0)
                /\ \A i \in DOMAIN sets :
                       Range(LinesOf(heap', sets'[i])) =
                           Range(LinesOf(heap, sets[i]))
                /\ \A c \in HeapCells :
                       /\ heap'[c].alloc = heap[c].alloc
                       /\ heap'[c].tag = heap[c].tag
                       /\ heap'[c].dirty_bit =
                              (IF c = cur /\ marks THEN 1 ELSE heap[c].dirty_bit)
          ]_vars

\* C15 witness: a store hit a line that was dirty already.
HitDirtyStoreWitness ==
    /\ pc = "loop" /\ nread > 0
    /\ type >= 0 /\ is_load = 0 /\ prevDirty = 1

\* C16: a resident line is dirty exactly when a store accessed it since its
\* insertion (the inserting access included), and a dirty line stays dirty
\* for as long as it is resident.
DirtyBitHistory ==
    [][ /\ pc' = "loop" =>
               \A c \in Resident(heap', sets') :
                   (heap'[c].dirty_bit = 1) <=> written'[c]
        /\ AccessStep =>
               \A c \in HeapCells :
                   (heap[c].alloc /\ heap'[c].alloc /\ heap[c].dirty_bit = 1)
                       => heap'[c].dirty_bit = 1 ]_vars

\* C16 witness: a line inserted by a load was later hit by a store, and was
\* then moved by a load hit, staying dirty.
DirtyBitWitness ==
    /\ pc = "loop" /\ nread > 0
    /\ type >= 0 /\ is_load = 1 /\ prevDirty = 1
    /\ branches.hit >= 2 /\ branches.cold = 1
    /\ stats.dirty_bytes = total_bytes

\* C17: with E >= 1, an access classified as a cold miss has a tag that was
\* never accessed before in its set.
ColdMissIsFirstAccess ==
    [][ (AccessStep /\ E >= 1 /\ type' = COLD_MISS_TYPE) =>
            <<set_num', tag'>> \notin seen ]_vars

\* C17 witness: a cold miss in the second set, after the first set took a
\* capacity miss on a block that had been resident in it earlier.
ColdMissWitness ==
    /\ pc = "loop" /\ E = 1 /\ s = 1 /\ nread = MaxTrace
    /\ type = COLD_MISS_TYPE /\ set_num = 1
    /\ branches.capacity = 2 /\ branches.cold = 2
    /\ Cardinality({p \in seen : p[1] = 0}) = 2

\* C18: an access changes only the set its address maps to: every other set
\* keeps its fields, its lines, their order, tags and dirty bits; and the
\* number of sets is 2^s throughout the loop.
OtherSetsUnchanged ==
    [][ /\ (pc' = "loop" /\ s >= 0) =>
               DOMAIN sets' = 0..(2 ^ s - 1)
        /\ AccessStep =>
               /\ set_num' \in DOMAIN sets
               /\ (Decodable(buffer') /\ s >= 0 /\ b >= 0) =>
                      set_num' = (buffer'.addr \div (2 ^ b)) % (2 ^ s)
               /\ \A j \in DOMAIN sets \ {set_num'} :
                      /\ sets'[j] = sets[j]
                      /\ LinesOf(heap', sets'[j]) = LinesOf(heap, sets[j])
                      /\ \A c \in Range(LinesOf(heap, sets[j])) :
                             heap'[c] = heap[c] ]_vars

\* C18 witness: with two sets, both holding lines, one of them took a
\* capacity miss.
OtherSetsWitness ==
    /\ pc = "loop" /\ s = 1 /\ nread > 0
    /\ type = CAPACITY_MISS_TYPE
    /\ \A i \in DOMAIN sets : sets[i].line_count > 0

\* C19: with E >= 1 the occupancy of a set never decreases: a cold miss adds
\* one line to its set, a hit and a capacity miss add none; a capacity miss
\* happens only in a set of exactly E lines, and a set of E lines keeps E
\* lines.
Occupancy(hp, set) == Len(LinesOf(hp, set))

OccupancyMonotone ==
    [][ (AccessStep /\ E >= 1) =>
            /\ \A i \in DOMAIN sets :
                  LET grows == IF i = set_num' /\ type' = COLD_MISS_TYPE
                               THEN 1 ELSE 0
                  IN  /\ sets'[i].line_count = sets[i].line_count + grows
                      /\ Occupancy(heap', sets'[i]) =
                             Occupancy(heap, sets[i]) + grows
                      /\ sets[i].line_count = E => sets'[i].line_count = E
            /\ type' = CAPACITY_MISS_TYPE =>
                  /\ sets[set_num'].line_count = E
                  /\ Occupancy(heap, sets[set_num']) = E ]_vars

\* C19 witness: a set that was full took a hit and then a capacity miss, and
\* holds E lines.
OccupancyWitness ==
    /\ pc = "loop" /\ E = 2 /\ nread = MaxTrace
    /\ type = CAPACITY_MISS_TYPE
    /\ branches.hit = 1 /\ branches.cold = 2
    /\ sets[set_num].line_count = E

\* C20: the chain of every set is well formed: a set with line_count = 0 has
\* NULL first_line and last_line; otherwise following next from first_line
\* visits exactly line_count distinct allocated lines, the last of them is
\* last_line and its next is NULL; and no line is in two chains.
ChainWellFormed ==
    pc = "loop" =>
        /\ \A i \in DOMAIN sets :
              LET ls == LinesOf(heap, sets[i])
              IN  IF sets[i].line_count = 0
                  THEN sets[i] = EmptySet
                  ELSE /\ Len(ls) = sets[i].line_count
                       /\ Cardinality(Range(ls)) = Len(ls)
                       /\ \A c \in Range(ls) : heap[c].alloc
                       /\ ls[1] = sets[i].first_line
                       /\ ls[Len(ls)] = sets[i].last_line
                       /\ heap[sets[i].last_line].next = NULL
        /\ \A i, j \in DOMAIN sets :
              i # j => Range(LinesOf(heap, sets[i]))
                           \cap Range(LinesOf(heap, sets[j])) = {}
        /\ \A c \in HeapCells : heap[c].alloc => c \in Resident(heap, sets)

\* C20 witness: the first of three lines was hit and moved to the end.
ChainWitness ==
    /\ pc = "loop" /\ nread = MaxTrace
    /\ sets[set_num].line_count = 3
    /\ type = 0

\* C12, as claimed: for every address A, read as an unsigned word, and valid
\* s and b, set_num is (A >> b) & ((1 << s) - 1) and the tag is the word
\* A >> (s + b), both shifts filling with zeros.
DecomposesLogically ==
    pc = "decoded" =>
        /\ set_num = (buffer.addr \div (2 ^ b)) % (2 ^ s)
        /\ tag % WordMod = buffer.addr \div (2 ^ (s + b))

====
